---- MODULE Spec2Model ----
(***************************************************************************)
(* Model of the key-value server's connection runtime and replication      *)
(* pipeline: command parser (command.rs), store (db.rs), master side       *)
(* connection handler and replica registry (master.rs), replica client     *)
(* (replica.rs) and server identity (main.rs).                             *)
(*                                                                         *)
(* A byte string is a sequence of one-character strings; a request frame   *)
(* is a sequence of byte strings (the tokens of one RESP array).           *)
(***************************************************************************)
EXTENDS Integers, Sequences, FiniteSets, TLC

\* ------------------------------------------------------------ bounds
\* total number of request frames the generic peers send
MaxSends == 2
\* total number of peers that shut down, close or are stopped
MaxFaults == 1
\* the clock stops advancing at MaxTime (milliseconds)
MaxTime == 500
\* granularity of the clock (milliseconds per clock step)
ClockStep == MaxTime \div 2

\* number of chunks a master other than this program writes to the replica client
MaxServerWrites == 8

\* ------------------------------------------------------------ program constants
\* time::interval(Duration::from_millis(500)), master.rs:200
INTERVAL_MS == 500
\* hex::decode(EMPTY).len(): the snapshot blob is 88 octets, main.rs:21
EMPTY_LEN == 88

\* connections accepted by the master; REPL is the one opened by the
\* replica client of replica.rs, the others are generic peers
CA == "peerA"
CB == "peerB"
REPL == "replica"
Conns == {CA, CB, REPL}

\* ------------------------------------------------------------ byte strings
CR == "\r"
LF == "\n"
CRLF == <<CR, LF>>

UpperChars == <<"A","B","C","D","E","F","G","H","I","J","K","L","M",
                "N","O","P","Q","R","S","T","U","V","W","X","Y","Z">>
LowerChars == <<"a","b","c","d","e","f","g","h","i","j","k","l","m",
                "n","o","p","q","r","s","t","u","v","w","x","y","z">>
DigitChars == <<"0","1","2","3","4","5","6","7","8","9">>

\* char::to_lowercase on one ASCII character
ToLowerChar(ch) ==
    IF \E i \in 1..26 : UpperChars[i] = ch
    THEN LowerChars[CHOOSE i \in 1..26 : UpperChars[i] = ch]
    ELSE ch

\* str::to_lowercase
to_lowercase(s) == [i \in 1..Len(s) |-> ToLowerChar(s[i])]

IsDigit(ch) == \E i \in 1..10 : DigitChars[i] = ch
DigitVal(ch) == (CHOOSE i \in 1..10 : DigitChars[i] = ch) - 1

\* the decimal rendering of a natural number ({} in format!)
RECURSIVE Digits(_)
Digits(n) ==
    IF n < 10 THEN <<DigitChars[n + 1]>>
    ELSE Digits(n \div 10) \o <<DigitChars[(n % 10) + 1]>>

RECURSIVE DigitsValue(_)
DigitsValue(s) ==
    IF s = <<>> THEN 0
    ELSE 10 * DigitsValue(SubSeq(s, 1, Len(s) - 1)) + DigitVal(s[Len(s)])

\* str::parse::<u64>: <<n>> on success, <<>> on failure (an optional
\* leading "+", then one or more decimal digits)
parse_u64(s) ==
    LET body == IF s # <<>> /\ s[1] = "+" THEN Tail(s) ELSE s
    IN  IF body # <<>> /\ \A i \in 1..Len(body) : IsDigit(body[i])
        THEN <<DigitsValue(body)>>
        ELSE <<>>

\* [T]::join(" ")
RECURSIVE join(_)
join(ts) ==
    IF ts = <<>> THEN <<>>
    ELSE IF Len(ts) = 1 THEN ts[1]
    ELSE ts[1] \o <<" ">> \o join(Tail(ts))

RECURSIVE Concat(_)
Concat(ss) == IF ss = <<>> THEN <<>> ELSE Head(ss) \o Concat(Tail(ss))

\* ------------------------------------------------------------ wire codec
\* parse.rs: bulk_string(None) / bulk_string(Some(value))
bulk_string(opt) ==
    IF opt = <<>> THEN <<"$", "-", "1">> \o CRLF
    ELSE <<"$">> \o Digits(Len(opt[1])) \o CRLF \o opt[1] \o CRLF

\* array(&vec![...]): "*<N>\r\n" followed by N bulk strings
array(ts) ==
    <<"*">> \o Digits(Len(ts)) \o CRLF
        \o Concat([i \in 1..Len(ts) |-> bulk_string(<<ts[i]>>)])

\* parse.rs: pairs(): an array of "key:value" bulk strings
pairs(kvs) ==
    <<"*">> \o Digits(Len(kvs)) \o CRLF
        \o Concat([i \in 1..Len(kvs) |->
                     bulk_string(<<kvs[i][1] \o <<":">> \o kvs[i][2]>>)])

PONG == <<"+","P","O","N","G">> \o CRLF
OK == <<"+","O","K">> \o CRLF
ERR == <<"-","E","R","R">> \o CRLF

\* ------------------------------------------------------------ command model
\* Option<T>: <<>> is None, <<x>> is Some(x)
None == <<>>
Some(x) == <<x>>

CmdErr == [type |-> "Err"]

\* REPLCONF sub-commands (the Replconf enum master.rs matches on)
ParseReplconf(rest) ==
    IF Len(rest) = 2 /\ rest[1] = <<"l","i","s","t","e","n","i","n","g","-","p","o","r","t">>
    THEN [type |-> "Replconf", sub |-> "ListeningPort"]
    ELSE IF Len(rest) = 2 /\ rest[1] = <<"c","a","p","a">>
    THEN [type |-> "Replconf", sub |-> "Capa"]
    ELSE IF Len(rest) = 2 /\ rest[1] = <<"g","e","t","a","c","k">>
    THEN [type |-> "Replconf", sub |-> "GetAck"]
    ELSE IF Len(rest) = 2 /\ rest[1] = <<"a","c","k">> /\ parse_u64(rest[2]) # None
    THEN [type |-> "Replconf", sub |-> "Ack", n |-> parse_u64(rest[2])[1]]
    ELSE CmdErr

\* WAIT <numreplicas> <timeout_ms> (the Command::Wait master.rs matches on)
ParseWait(rest) ==
    IF Len(rest) = 2 /\ parse_u64(rest[1]) # None /\ parse_u64(rest[2]) # None
    THEN [type |-> "Wait", n |-> parse_u64(rest[1])[1], timeout |-> parse_u64(rest[2])[1]]
    ELSE CmdErr

\* Command::parse: every token is lower-cased first, then the slice is matched
Command_parse(input) ==
    LET input_lower == [i \in 1..Len(input) |-> to_lowercase(input[i])]
        n == Len(input_lower)
        verb == IF n = 0 THEN <<>> ELSE input_lower[1]
    IN  IF n = 1 /\ verb = <<"p","i","n","g">> THEN [type |-> "Ping"]
        ELSE IF n >= 1 /\ verb = <<"e","c","h","o">>
            THEN [type |-> "Echo", value |-> join(Tail(input_lower))]
        ELSE IF n = 5 /\ verb = <<"s","e","t">> /\ input_lower[4] = <<"p","x">>
            THEN [type |-> "Set", key |-> input_lower[2], value |-> input_lower[3],
                  ex |-> parse_u64(input_lower[5])]
        ELSE IF n = 3 /\ verb = <<"s","e","t">>
            THEN [type |-> "Set", key |-> input_lower[2], value |-> input_lower[3],
                  ex |-> None]
        ELSE IF n = 2 /\ verb = <<"g","e","t">>
            THEN [type |-> "Get", key |-> input_lower[2]]
        ELSE IF n >= 1 /\ verb = <<"i","n","f","o">> THEN [type |-> "Info"]
        ELSE IF n >= 1 /\ verb = <<"r","e","p","l","c","o","n","f">>
            THEN ParseReplconf(Tail(input_lower))
        ELSE IF n >= 1 /\ verb = <<"p","s","y","n","c">> THEN [type |-> "Psync"]
        ELSE IF n >= 1 /\ verb = <<"w","a","i","t">> THEN ParseWait(Tail(input_lower))
        ELSE CmdErr

\* ------------------------------------------------------------ store
\* Entry::Simple(value) has ex = None, Entry::Expire(value, instant) has ex = Some(instant)
\* DB::get at clock value t
db_get(d, key, t) ==
    IF key \notin DOMAIN d THEN None
    ELSE IF d[key].ex = None THEN Some(d[key].value)
    ELSE IF t > d[key].ex[1] THEN None
    ELSE Some(d[key].value)

\* DB::set at clock value t
db_set(d, key, value, ex, t) ==
    LET entry == IF ex = None THEN [value |-> value, ex |-> None]
                 ELSE [value |-> value, ex |-> Some(t + ex[1])]
    IN  [k \in DOMAIN d \cup {key} |-> IF k = key THEN entry ELSE d[k]]

\* ------------------------------------------------------------ server identity
\* Server::replid
replid == <<"8","3","7","1","b","4","f","b","1","1","5","5","b","7","1","f","4","a","0","4",
           "d","3","e","1","b","c","3","e","1","8","c","4","a","9","9","0","a","e","e","b">>
\* Server::offset
server_offset == <<"0">>
\* Server::info on the master
server_info ==
    << << <<"r","o","l","e">>, <<"m","a","s","t","e","r">> >>,
       << <<"m","a","s","t","e","r","_","r","e","p","l","i","d">>, replid >>,
       << <<"m","a","s","t","e","r","_","r","e","p","l","_","o","f","f","s","e","t">>,
          server_offset >> >>

\* ------------------------------------------------------------ state
VARIABLES
    now,        \* the clock (Instant::now()), in milliseconds
    db,         \* the master's store: key -> entry
    peers,      \* Replicas.peers: the registry (addresses of registered replicas)
    pc,         \* position of each connection's handler task
    chan,       \* each peer's unbounded send channel (tx -> rx)
    todo,       \* peers a running broadcast has still to send to
    msg,        \* the payload a running SET is about to broadcast
    offset,     \* PeerType::Replica.offset of each connection
    nextTick,   \* deadline of the next tick of PeerType::Replica.interval
    inbox,      \* frames the peer has sent that the handler has not read yet
    out,        \* chunks written to the peer's socket that the peer has not read yet
    eof,        \* the peer has shut down its sending side
    broken,     \* the peer has closed the socket: writes to it fail
    sends,      \* number of frames the generic peers have sent
    faults,     \* number of times a peer has shut down, closed or been stopped
    sent,       \* history: every frame the peer has sent, in order, each with the
                \* number of unread frames it was queued behind
    disp,       \* history: every frame handed to handle_client_command, in order
    lastSet,    \* history: the last SET applied to the store, per key as sent
    lastAck,    \* history: the last offset received in a REPLCONF ACK, per connection
    applied,    \* history: broadcast payloads of the SETs, in store order
    rpc,        \* replica client: position in sync_with_master
    rdb,        \* replica client: the replica's store
    rsnap,      \* replica client: file_length and the octets of file_buff read so far
    rread,      \* history: the lines the replica client has read in the handshake
    rlog        \* history: frames the apply loop has processed, with its replies

vars == <<now, db, peers, pc, chan, todo, msg, offset, nextTick, inbox, out,
          eof, broken, sends, faults, sent, disp, lastSet, lastAck, applied, rpc, rdb, rsnap, rread, rlog>>

\* the replica client's own state
rvars == <<rpc, rdb, rsnap, rread, rlog>>

\* ------------------------------------------------------------ inputs
tSET == <<"S","E","T">>
tGET == <<"G","E","T">>
F_SET_V == <<tSET, <<"k">>, <<"V">>>>
F_SET_X == <<tSET, <<"k">>, <<"x">>>>
F_SET_PX0 == <<tSET, <<"k">>, <<"w">>, <<"P","X">>, <<"0">>>>
F_SET_PX == <<tSET, <<"k">>, <<"w">>, <<"P","X">>, <<"2","5","0">>>>
F_SET_PXBAD == <<tSET, <<"k">>, <<"w">>, <<"P","X">>, <<"a","b","c">>>>
F_SET_SHORT == <<tSET, <<"k">>>>
F_GET == <<tGET, <<"k">>>>
F_ECHO == << <<"E","C","H","O">>, <<"H","i">>, <<"y","o">> >>
F_PING == << <<"P","I","N","G">> >>
F_INFO == << <<"I","N","F","O">> >>
F_WAIT == << <<"W","A","I","T">>, <<"1">>, <<"2","5","0">> >>
F_CAPA == << <<"R","E","P","L","C","O","N","F">>, <<"c","a","p","a">>, <<"p","s","y","n","c","2">> >>
F_PSYNC == << <<"P","S","Y","N","C">>, <<"?">>, <<"-","1">> >>
F_ACK == << <<"R","E","P","L","C","O","N","F">>, <<"A","C","K">>, <<"0">> >>
F_BAD == << <<"F","O","O">> >>

\* the frames each generic peer may send: every form when the master runs
\* alone, writes when the replica client is connected to it
Menu(c) ==
    IF rpc = "Off"
    THEN IF c = CA
         THEN {F_SET_V, F_SET_PX0, F_SET_PX, F_SET_PXBAD, F_SET_SHORT, F_GET, F_ECHO,
               F_WAIT, F_PING, F_INFO, F_BAD}
         ELSE {F_SET_X, F_PSYNC, F_ACK, F_CAPA}
    ELSE IF c = CA THEN {F_SET_V, F_SET_PX, F_INFO}
         ELSE {F_SET_X}

\* the generic peers that may shut down or close their connection: both when
\* the master runs alone, the first when the replica client is connected
FaultyPeers == IF rpc = "Off" THEN {CA, CB} ELSE {CA}

\* REPLCONF GETACK *, as the master writes it
GETACK == <<<<"r","e","p","l","c","o","n","f">>, <<"g","e","t","a","c","k">>, <<"*">>>>

Init ==
    /\ now = 0
    /\ db = <<>>
    /\ peers = {}
    /\ pc = [c \in Conns |-> "Client"]
    /\ chan = [c \in Conns |-> <<>>]
    /\ todo = [c \in Conns |-> {}]
    /\ msg = [c \in Conns |-> <<>>]
    /\ offset = [c \in Conns |-> 0]
    /\ nextTick = [c \in Conns |-> 0]
    /\ inbox = [c \in Conns |-> <<>>]
    /\ out = [c \in Conns |-> <<>>]
    /\ eof = [c \in Conns |-> FALSE]
    /\ broken = [c \in Conns |-> FALSE]
    /\ sends = 0
    /\ faults = 0
    /\ sent = [c \in Conns |-> <<>>]
    /\ disp = [c \in Conns |-> <<>>]
    /\ lastSet = <<>>
    /\ lastAck = [c \in Conns |-> None]
    /\ applied = <<>>
    /\ rpc \in {"Off", "Ping"}
    /\ rdb = <<>>
    /\ rsnap = [need |-> 0, got |-> 0]
    /\ rread = <<>>
    /\ rlog = <<>>

\* ------------------------------------------------------------ environment
\* time passes
AdvanceClock ==
    /\ now + ClockStep <= MaxTime
    /\ now' = now + ClockStep
    /\ UNCHANGED rvars
    /\ UNCHANGED <<db, peers, pc, chan, todo, msg, offset, nextTick, inbox, out,
                   eof, broken, sends, faults, sent, disp, lastSet, lastAck, applied>>

\* a generic peer sends one request frame
PeerSend(c, f) ==
    /\ sends < MaxSends
    /\ ~eof[c] /\ ~broken[c]
    /\ sends' = sends + 1
    /\ faults' = faults
    /\ inbox' = [inbox EXCEPT ![c] = Append(@, f)]
    /\ sent' = [sent EXCEPT ![c] = Append(@, [frame |-> f, behind |-> Len(inbox[c])])]
    /\ UNCHANGED rvars
    /\ UNCHANGED <<now, db, peers, pc, chan, todo, msg, offset, nextTick, out,
                   eof, broken, disp, lastSet, lastAck, applied>>

\* a generic peer shuts down its sending side: the handler reads EOF
PeerShutdown(c) ==
    /\ ~eof[c]
    /\ faults < MaxFaults
    /\ faults' = faults + 1
    /\ eof' = [eof EXCEPT ![c] = TRUE]
    /\ UNCHANGED rvars
    /\ UNCHANGED <<now, db, peers, pc, chan, todo, msg, offset, nextTick, inbox, out,
                   broken, sends, sent, disp, lastSet, lastAck, applied>>

\* a generic peer closes its socket: reads end and writes fail
PeerClose(c) ==
    /\ ~broken[c]
    /\ faults < MaxFaults
    /\ faults' = faults + 1
    /\ eof' = [eof EXCEPT ![c] = TRUE]
    /\ broken' = [broken EXCEPT ![c] = TRUE]
    /\ UNCHANGED rvars
    /\ UNCHANGED <<now, db, peers, pc, chan, todo, msg, offset, nextTick, inbox, out,
                   sends, sent, disp, lastSet, lastAck, applied>>

\* ------------------------------------------------------------ master: Client state
\* the snapshot blob: EMPTY_LEN opaque octets
blob == [i \in 1..EMPTY_LEN |-> "."]

\* Replicas::len
replicas_len(reg) == Cardinality(reg)

\* a dispatch that leaves PING unanswered: the variant of client_reply that
\* the per-frame response property C9 must tell apart from the code's
client_reply_m(cmd, d, t, reg) ==
    IF cmd.type = "Ping" THEN <<>> ELSE <<OK>>

\* handle_client_command: the byte strings written to the client for a
\* command, one per write_all, given the store, the clock and the registry
client_reply(cmd, d, t, reg) ==
    IF cmd.type = "Ping" THEN <<PONG>>
    ELSE IF cmd.type = "Echo" THEN <<bulk_string(Some(cmd.value))>>
    ELSE IF cmd.type = "Get" THEN <<bulk_string(db_get(d, cmd.key, t))>>
    ELSE IF cmd.type = "Set" THEN <<OK>>
    ELSE IF cmd.type = "Info" THEN <<pairs(server_info)>>
    ELSE IF cmd.type = "Replconf" /\ cmd.sub \in {"ListeningPort", "Capa"} THEN <<OK>>
    ELSE IF cmd.type = "Psync"
        THEN << <<"+","F","U","L","L","R","E","S","Y","N","C"," ">> \o replid \o <<" ">>
                    \o server_offset \o CRLF,
                <<"$">> \o Digits(Len(blob)) \o CRLF,
                blob >>
    ELSE IF cmd.type = "Wait" THEN << <<":">> \o Digits(replicas_len(reg)) \o CRLF >>
    ELSE IF cmd.type = "Err" THEN <<ERR>>
    ELSE <<>>

\* a SET that hands an empty payload to the broadcast: the variant of
\* set_payload that the frame effect property C21 must tell apart
set_payload_m(cmd) == <<>>

\* the payload a SET broadcasts: array(&vec!["set", key, value])
set_payload(cmd) == << <<"s","e","t">>, cmd.key, cmd.value >>

\* the chunks of one reply (one per write_all), tagged with the frame they
\* answer, its position among the dispatched frames and the chunk's number;
\* a chunk pushed to a replica has no frame and position 0
Chunks(bs, frame, seq) ==
    [i \in 1..Len(bs) |-> [bytes |-> bs[i], frame |-> frame, seq |-> seq, part |-> i]]

\* handle(), Client state: tokenize returns Ok(None) or Err: the handler
\* returns None, which drops the MasterConnection and its receiver
ClientEof(c) ==
    /\ pc[c] = "Client"
    /\ inbox[c] = <<>>
    /\ eof[c] \/ broken[c]
    /\ pc' = [pc EXCEPT ![c] = "Dropped"]
    /\ chan' = [chan EXCEPT ![c] = <<>>]
    /\ UNCHANGED rvars
    /\ UNCHANGED <<now, db, peers, todo, msg, offset, nextTick, inbox, out,
                   eof, broken, sends, faults, sent, disp, lastSet, lastAck, applied>>

\* handle(), Client state, a command other than SET and PSYNC: parse,
\* dispatch, write the reply; a failed write is unwrapped and panics the task
ClientCommand(c) ==
    /\ pc[c] = "Client"
    /\ inbox[c] # <<>>
    /\ LET frame == Head(inbox[c])
           cmd == Command_parse(frame)
           reply == client_reply(cmd, db, now, peers)
       IN  /\ cmd.type \notin {"Set", "Psync"}
           /\ inbox' = [inbox EXCEPT ![c] = Tail(@)]
           /\ disp' = [disp EXCEPT ![c] = Append(@, frame)]
           /\ IF reply # <<>> /\ broken[c]
              THEN /\ pc' = [pc EXCEPT ![c] = "Panicked"]
                   /\ chan' = [chan EXCEPT ![c] = <<>>]
                   /\ out' = out
              ELSE /\ out' = [out EXCEPT ![c] = @ \o Chunks(reply, frame, Len(disp[c]) + 1)]
                   /\ UNCHANGED <<pc, chan>>
    /\ UNCHANGED rvars
    /\ UNCHANGED <<now, db, peers, todo, msg, offset, nextTick,
                   eof, broken, sends, faults, sent, lastSet, lastAck, applied>>

\* handle(), Client state, SET: DB::set, then write +OK (a failed write
\* panics the task before the broadcast), then go on to broadcast
ClientSet(c) ==
    /\ pc[c] = "Client"
    /\ inbox[c] # <<>>
    /\ LET frame == Head(inbox[c])
           cmd == Command_parse(frame)
       IN  /\ cmd.type = "Set"
           /\ inbox' = [inbox EXCEPT ![c] = Tail(@)]
           /\ disp' = [disp EXCEPT ![c] = Append(@, frame)]
           /\ db' = db_set(db, cmd.key, cmd.value, cmd.ex, now)
           /\ applied' = Append(applied, set_payload(cmd))
           /\ lastSet' = [k \in DOMAIN lastSet \cup {frame[2]} |->
                            IF k = frame[2]
                            THEN [conn |-> c, value |-> frame[3], at |-> now,
                                  px |-> IF Len(frame) = 5 THEN parse_u64(frame[5]) ELSE None,
                                  ok |-> ~broken[c]]
                            ELSE lastSet[k]]
           /\ IF broken[c]
              THEN /\ pc' = [pc EXCEPT ![c] = "Panicked"]
                   /\ chan' = [chan EXCEPT ![c] = <<>>]
                   /\ UNCHANGED <<out, msg>>
              ELSE /\ out' = [out EXCEPT ![c] = @ \o Chunks(client_reply(cmd, db, now, peers), frame, Len(disp[c]) + 1)]
                   /\ pc' = [pc EXCEPT ![c] = "SetBroadcast"]
                   /\ msg' = [msg EXCEPT ![c] = set_payload(cmd)]
                   /\ chan' = chan
    /\ UNCHANGED rvars
    /\ UNCHANGED <<now, peers, todo, offset, nextTick,
                   eof, broken, sends, faults, sent, lastAck>>

\* Replicas::broadcast begins: the read lock on the registry is taken and
\* the iteration over the current members starts
BroadcastBegin(c) ==
    /\ pc[c] = "SetBroadcast"
    /\ todo' = [todo EXCEPT ![c] = peers]
    /\ pc' = [pc EXCEPT ![c] = IF peers = {} THEN "Client" ELSE "Broadcasting"]
    /\ msg' = [msg EXCEPT ![c] = IF peers = {} THEN <<>> ELSE @]
    /\ UNCHANGED rvars
    /\ UNCHANGED <<now, db, peers, chan, offset, nextTick, inbox, out,
                   eof, broken, sends, faults, sent, disp, lastSet, lastAck, applied>>

\* the receiver of peer p's channel is gone (its MasterConnection was dropped)
RxDropped(p) == pc[p] \in {"Dropped", "Exited", "Panicked"}

\* Replica::send to one member: tx.send(val).unwrap(); sending on a channel
\* whose receiver was dropped is an Err, and the unwrap panics the sender's task
BroadcastSend(c, p) ==
    /\ pc[c] = "Broadcasting"
    /\ p \in todo[c]
    /\ IF RxDropped(p)
       THEN /\ pc' = [pc EXCEPT ![c] = "Panicked"]
            /\ todo' = [todo EXCEPT ![c] = {}]
            /\ msg' = [msg EXCEPT ![c] = <<>>]
            /\ chan' = [chan EXCEPT ![c] = <<>>]
       ELSE /\ chan' = [chan EXCEPT ![p] = Append(@, msg[c])]
            /\ todo' = [todo EXCEPT ![c] = @ \ {p}]
            /\ pc' = [pc EXCEPT ![c] = IF todo[c] = {p} THEN "Client" ELSE "Broadcasting"]
            /\ msg' = [msg EXCEPT ![c] = IF todo[c] = {p} THEN <<>> ELSE @]
    /\ UNCHANGED rvars
    /\ UNCHANGED <<now, db, peers, offset, nextTick, inbox, out,
                   eof, broken, sends, faults, sent, disp, lastSet, lastAck, applied>>

\* handle(), Client state, PSYNC: the FULLRESYNC line, the length line and
\* the blob are written; a failed write panics the task
ClientPsync(c) ==
    /\ pc[c] = "Client"
    /\ inbox[c] # <<>>
    /\ LET frame == Head(inbox[c])
           cmd == Command_parse(frame)
       IN  /\ cmd.type = "Psync"
           /\ inbox' = [inbox EXCEPT ![c] = Tail(@)]
           /\ disp' = [disp EXCEPT ![c] = Append(@, frame)]
           /\ IF broken[c]
              THEN /\ pc' = [pc EXCEPT ![c] = "Panicked"]
                   /\ chan' = [chan EXCEPT ![c] = <<>>]
                   /\ out' = out
              ELSE /\ out' = [out EXCEPT ![c] = @ \o Chunks(client_reply(cmd, db, now, peers), frame, Len(disp[c]) + 1)]
                   /\ pc' = [pc EXCEPT ![c] = "PsyncAdd"]
                   /\ chan' = chan
    /\ UNCHANGED rvars
    /\ UNCHANGED <<now, db, peers, todo, msg, offset, nextTick,
                   eof, broken, sends, faults, sent, lastSet, lastAck, applied>>

\* a broadcast holds the registry's read lock while it iterates
ReadLocked == \E d \in Conns : pc[d] = "Broadcasting"

\* Replicas::add under the write lock, then the handler becomes
\* PeerType::Replica with offset 0 and a fresh interval, whose first tick
\* completes at once
PsyncAdd(c) ==
    /\ pc[c] = "PsyncAdd"
    /\ ~ReadLocked
    /\ peers' = peers \cup {c}
    /\ pc' = [pc EXCEPT ![c] = "Replica"]
    /\ offset' = [offset EXCEPT ![c] = 0]
    /\ nextTick' = [nextTick EXCEPT ![c] = now]
    /\ UNCHANGED rvars
    /\ UNCHANGED <<now, db, chan, todo, msg, inbox, out,
                   eof, broken, sends, faults, sent, disp, lastSet, lastAck, applied>>

\* ------------------------------------------------------------ master: Replica state
\* a counter that advances by one per write: the variant of bytes_sent that
\* the octet count property C18 must tell apart
bytes_sent_m(off, bytes) == off + 1

\* offset += msg.len()
bytes_sent(off, bytes) == off + Len(bytes)

\* select!: rx.recv() is ready when a payload is queued, interval.tick()
\* when the tick's deadline has passed
CanRecv(c) == pc[c] = "Replica" /\ chan[c] # <<>>
CanTick(c) == pc[c] = "Replica" /\ now >= nextTick[c]

\* tokenize(reader).await after GETACK returns once a frame has arrived or
\* the stream has ended
CanReadAck(c) == pc[c] = "AwaitAck" /\ (inbox[c] # <<>> \/ eof[c] \/ broken[c])

\* handle(), Replica state, select! arm rx.recv(): the payload is counted
\* and written verbatim; a failed write returns None
ReplicaRecv(c) ==
    /\ CanRecv(c)
    /\ LET bytes == array(Head(chan[c]))
       IN  IF broken[c]
           THEN /\ pc' = [pc EXCEPT ![c] = "Dropped"]
                /\ chan' = [chan EXCEPT ![c] = <<>>]
                /\ UNCHANGED <<out, offset>>
           ELSE /\ chan' = [chan EXCEPT ![c] = Tail(@)]
                /\ offset' = [offset EXCEPT ![c] = bytes_sent(@, bytes)]
                /\ out' = [out EXCEPT ![c] = @ \o Chunks(<<bytes>>, <<>>, 0)]
                /\ pc' = pc
    /\ UNCHANGED rvars
    /\ UNCHANGED <<now, db, peers, todo, msg, nextTick, inbox,
                   eof, broken, sends, faults, sent, disp, lastSet, lastAck, applied>>

\* handle(), Replica state, select! arm interval.tick(): REPLCONF GETACK *
\* is counted and written; a failed write returns None, otherwise the
\* handler goes on to read the answer
ReplicaTick(c) ==
    /\ CanTick(c)
    /\ nextTick' = [nextTick EXCEPT ![c] = @ + INTERVAL_MS]
    /\ LET bytes == array(GETACK)
       IN  IF broken[c]
           THEN /\ pc' = [pc EXCEPT ![c] = "Dropped"]
                /\ chan' = [chan EXCEPT ![c] = <<>>]
                /\ UNCHANGED <<out, offset>>
           ELSE /\ offset' = [offset EXCEPT ![c] = bytes_sent(@, bytes)]
                /\ out' = [out EXCEPT ![c] = @ \o Chunks(<<bytes>>, <<>>, 0)]
                /\ pc' = [pc EXCEPT ![c] = "AwaitAck"]
                /\ chan' = chan
    /\ UNCHANGED rvars
    /\ UNCHANGED <<now, db, peers, todo, msg, inbox,
                   eof, broken, sends, faults, sent, disp, lastSet, lastAck, applied>>

\* a handler that falls back to Client state after its GETACK: the variant
\* of AwaitAck that the promotion property C22 must tell apart
AwaitAck_m(c) ==
    /\ CanReadAck(c)
    /\ pc' = [pc EXCEPT ![c] = "Client"]
    /\ UNCHANGED rvars
    /\ UNCHANGED <<now, db, peers, chan, todo, msg, offset, nextTick, inbox, out,
                   eof, broken, sends, faults, sent, disp, lastSet, lastAck, applied>>

\* handle(), Replica state, after GETACK was written: tokenize(reader).
\* REPLCONF ACK keeps the session, any other frame returns None; Ok(None)
\* and Err do not match the if-let and the session goes on
AwaitAck(c) ==
    /\ CanReadAck(c)
    /\ IF inbox[c] # <<>>
       THEN LET cmd == Command_parse(Head(inbox[c]))
            IN  /\ inbox' = [inbox EXCEPT ![c] = Tail(@)]
                /\ IF cmd.type = "Replconf" /\ cmd.sub = "Ack"
                   THEN /\ pc' = [pc EXCEPT ![c] = "Replica"]
                        /\ lastAck' = [lastAck EXCEPT ![c] = Some(cmd.n)]
                        /\ chan' = chan
                   ELSE /\ pc' = [pc EXCEPT ![c] = "Dropped"]
                        /\ chan' = [chan EXCEPT ![c] = <<>>]
                        /\ lastAck' = lastAck
       ELSE /\ pc' = [pc EXCEPT ![c] = "Replica"]
            /\ UNCHANGED <<inbox, lastAck, chan>>
    /\ UNCHANGED rvars
    /\ UNCHANGED <<now, db, peers, todo, msg, offset, nextTick, out,
                   eof, broken, sends, faults, sent, disp, lastSet, applied>>

\* client_handler after the loop: Replicas::remove under the write lock,
\* then the task ends and the socket is closed
Remove(c) ==
    /\ pc[c] = "Dropped"
    /\ ~ReadLocked
    /\ peers' = peers \ {c}
    /\ pc' = [pc EXCEPT ![c] = "Exited"]
    /\ UNCHANGED rvars
    /\ UNCHANGED <<now, db, chan, todo, msg, offset, nextTick, inbox, out,
                   eof, broken, sends, faults, sent, disp, lastSet, lastAck, applied>>

\* the master's end of connection c is closed (its task has ended)
MasterClosed(c) == pc[c] \in {"Exited", "Panicked"}

\* ------------------------------------------------------------ codec: reading
\* index of the first CR LF at or after position i, 0 when there is none
FindCRLF(bs, i) ==
    LET hits == {j \in i..(Len(bs) - 1) : bs[j] = CR /\ bs[j + 1] = LF}
    IN  IF hits = {} THEN 0 ELSE CHOOSE j \in hits : \A k \in hits : j <= k

\* n bulk strings "$<len>\r\n<bytes>\r\n" starting at position i
RECURSIVE ReadBulks(_, _, _)
ReadBulks(bs, i, n) ==
    IF n = 0 THEN [ok |-> TRUE, tokens |-> <<>>, pos |-> i]
    ELSE IF i > Len(bs) \/ bs[i] # "$" \/ FindCRLF(bs, i) = 0 THEN [ok |-> FALSE]
    ELSE LET j == FindCRLF(bs, i)
             len == parse_u64(SubSeq(bs, i + 1, j - 1))
         IN  IF len = None \/ j + 3 + len[1] > Len(bs) THEN [ok |-> FALSE]
             ELSE IF SubSeq(bs, j + 2 + len[1], j + 3 + len[1]) # CRLF THEN [ok |-> FALSE]
             ELSE LET rest == ReadBulks(bs, j + 4 + len[1], n - 1)
                  IN  IF ~rest.ok THEN rest
                      ELSE [ok |-> TRUE,
                            tokens |-> <<SubSeq(bs, j + 2, j + 1 + len[1])>> \o rest.tokens,
                            pos |-> rest.pos]

\* tokenize(reader): one request frame "*<N>\r\n" and its N bulk strings,
\* with the number of octets consumed
tokenize(bs) ==
    IF bs = <<>> \/ bs[1] # "*" \/ FindCRLF(bs, 1) = 0 THEN [ok |-> FALSE]
    ELSE LET j == FindCRLF(bs, 1)
             n == parse_u64(SubSeq(bs, 2, j - 1))
         IN  IF n = None THEN [ok |-> FALSE]
             ELSE LET r == ReadBulks(bs, j + 2, n[1])
                  IN  IF ~r.ok THEN r
                      ELSE [ok |-> TRUE, tokens |-> r.tokens, consumed |-> r.pos - 1]

\* ------------------------------------------------------------ replica client
\* the replica client's socket is dropped when sync_with_master ends
RStopped == rpc \in {"Off", "Done", "Error", "Panic", "Killed"}

REnd(state) ==
    /\ rpc' = state
    /\ eof' = [eof EXCEPT ![REPL] = TRUE]
    /\ broken' = [broken EXCEPT ![REPL] = TRUE]

\* the positions at which the replica client writes, and those at which it
\* waits for the master's bytes
RWriting == {"Ping", "ConfPort", "ConfFormat", "SyncFile"}
RReading == {"PingWait", "ConfPortWait", "ConfFormatWait", "SyncLine1", "SyncLine2",
             "SyncBlob", "Apply"}

\* writer.write_all(array(..)).await?: a handshake request is sent
RSend(from, frame, to) ==
    /\ rpc = from
    /\ IF MasterClosed(REPL)
       THEN /\ REnd("Error")
            /\ UNCHANGED <<inbox, sent>>
       ELSE /\ rpc' = to
            /\ inbox' = [inbox EXCEPT ![REPL] = Append(@, frame)]
            /\ sent' = [sent EXCEPT ![REPL] = Append(@, [frame |-> frame, behind |-> Len(inbox[REPL])])]
            /\ UNCHANGED <<eof, broken>>
    /\ UNCHANGED <<now, db, peers, pc, chan, todo, msg, offset, nextTick, out,
                   sends, faults, disp, lastSet, lastAck, applied, rdb, rsnap, rread, rlog>>

\* something can be read from the master: a chunk, or the end of the stream
RReadable == out[REPL] # <<>> \/ MasterClosed(REPL)

\* reader.read_line(&mut response): the line read, empty at the end of the stream
RLine == IF out[REPL] # <<>> THEN Head(out[REPL]).bytes ELSE <<>>

RPop == out' = [out EXCEPT ![REPL] = IF @ = <<>> THEN @ ELSE Tail(@)]

\* a handshake step that takes any reply line for the expected one: the
\* variant of RExpect that the handshake order property C12 must tell apart
RExpect_m(from, expected, to) ==
    /\ rpc = from
    /\ RReadable
    /\ RPop
    /\ rread' = Append(rread, RLine)
    /\ rpc' = to
    /\ UNCHANGED <<now, db, peers, pc, chan, todo, msg, offset, nextTick, inbox, eof, broken,
                   sends, faults, sent, disp, lastSet, lastAck, applied, rdb, rsnap, rlog>>

\* handshake steps 1 to 3: the reply line is compared, lower-cased, with the
\* expected one; a different line returns Err
RExpect(from, expected, to) ==
    /\ rpc = from
    /\ RReadable
    /\ RPop
    /\ rread' = Append(rread, RLine)
    /\ IF to_lowercase(RLine) # to_lowercase(expected)
       THEN REnd("Error")
       ELSE rpc' = to /\ UNCHANGED <<eof, broken>>
    /\ UNCHANGED <<now, db, peers, pc, chan, todo, msg, offset, nextTick, inbox,
                   sends, faults, sent, disp, lastSet, lastAck, applied, rdb, rsnap, rlog>>

F_RPING == << <<"p","i","n","g">> >>
F_RPORT == << <<"R","E","P","L","C","O","N","F">>,
              <<"l","i","s","t","e","n","i","n","g","-","p","o","r","t">>,
              <<"6","3","8","0">> >>
F_RCAPA == << <<"R","E","P","L","C","O","N","F">>, <<"c","a","p","a">>,
              <<"p","s","y","n","c","2">> >>
F_RPSYNC == << <<"P","S","Y","N","C">>, <<"?">>, <<"-","1">> >>

RSendPing == RSend("Ping", F_RPING, "PingWait")
RRecvPong == RExpect("PingWait", PONG, "ConfPort")
RSendPort == RSend("ConfPort", F_RPORT, "ConfPortWait")
RRecvPortOk == RExpect("ConfPortWait", OK, "ConfFormat")
RSendCapa == RSend("ConfFormat", F_RCAPA, "ConfFormatWait")
RRecvCapaOk == RExpect("ConfFormatWait", OK, "SyncFile")
RSendPsync == RSend("SyncFile", F_RPSYNC, "SyncLine1")

\* Handshake::SyncFile: the first reply line is read and ignored
RSyncLine1 ==
    /\ rpc = "SyncLine1"
    /\ RReadable
    /\ RPop
    /\ rread' = Append(rread, RLine)
    /\ rpc' = "SyncLine2"
    /\ UNCHANGED <<now, db, peers, pc, chan, todo, msg, offset, nextTick, inbox,
                   eof, broken, sends, faults, sent, disp, lastSet, lastAck, applied, rdb, rsnap, rlog>>

\* Handshake::SyncFile: the length line. response[1..response.len() - 2]
\* panics when the line has fewer than three octets (the range is empty
\* backwards, or the subtraction overflows); a length that is no number
\* returns Err; file_buff gets file_length octets
RSyncLine2 ==
    /\ rpc = "SyncLine2"
    /\ RReadable
    /\ RPop
    /\ rread' = Append(rread, RLine)
    /\ IF Len(RLine) < 3 THEN REnd("Panic") /\ rsnap' = rsnap
       ELSE LET file_length == parse_u64(SubSeq(RLine, 2, Len(RLine) - 2))
            IN  IF file_length = None THEN REnd("Error") /\ rsnap' = rsnap
                ELSE /\ rpc' = IF file_length[1] = 0 THEN "Apply" ELSE "SyncBlob"
                     /\ rsnap' = [need |-> file_length[1], got |-> 0]
                     /\ UNCHANGED <<eof, broken>>
    /\ UNCHANGED <<now, db, peers, pc, chan, todo, msg, offset, nextTick, inbox,
                   sends, faults, sent, disp, lastSet, lastAck, applied, rdb, rlog>>

\* Handshake::SyncFile: let _ = reader.read_exact(&mut file_buff): octets are
\* taken from the stream until file_buff is full; when the stream ends
\* first the error is ignored and the client goes on to the apply loop
RSyncBlob ==
    /\ rpc = "SyncBlob"
    /\ RReadable
    /\ IF out[REPL] = <<>>
       THEN /\ rpc' = "Apply"
            /\ UNCHANGED <<out, rsnap>>
       ELSE LET ch == Head(out[REPL])
                m == Len(ch.bytes)
                want == rsnap.need - rsnap.got
            IN  IF m <= want
                THEN /\ out' = [out EXCEPT ![REPL] = Tail(@)]
                     /\ rsnap' = [rsnap EXCEPT !.got = @ + m]
                     /\ rpc' = IF m = want THEN "Apply" ELSE "SyncBlob"
                ELSE /\ out' = [out EXCEPT ![REPL] =
                                 <<[ch EXCEPT !.bytes = SubSeq(ch.bytes, want + 1, m)]>>
                                     \o Tail(@)]
                     /\ rsnap' = [rsnap EXCEPT !.got = rsnap.need]
                     /\ rpc' = "Apply"
    /\ UNCHANGED <<now, db, peers, pc, chan, todo, msg, offset, nextTick, inbox,
                   eof, broken, sends, faults, sent, disp, lastSet, lastAck, applied,
                   rdb, rread, rlog>>

\* what the apply loop writes back to the master for a command: nothing
apply_reply(cmd, processed) == <<>>

\* the apply loop: a SET is applied to the replica's store, every other
\* command is dropped; the end of the stream ends the client with Ok(())
RApply ==
    /\ rpc = "Apply"
    /\ RReadable
    /\ RPop
    /\ IF out[REPL] = <<>>
       THEN /\ REnd("Done")
            /\ UNCHANGED <<rdb, rlog, inbox, sent>>
       ELSE LET t == tokenize(RLine)
            IN  IF ~t.ok
                THEN /\ REnd("Error")
                     /\ UNCHANGED <<rdb, rlog, inbox, sent>>
                ELSE LET cmd == Command_parse(t.tokens)
                         processed == Len(Concat([i \in 1..Len(rlog) |-> array(rlog[i].frame)]))
                         reply == apply_reply(cmd, processed)
                     IN  /\ rdb' = IF cmd.type = "Set"
                                   THEN db_set(rdb, cmd.key, cmd.value, cmd.ex, now)
                                   ELSE rdb
                         /\ rlog' = Append(rlog, [frame |-> t.tokens, reply |-> reply])
                         /\ inbox' = [inbox EXCEPT ![REPL] = @ \o reply]
                         /\ sent' = [sent EXCEPT ![REPL] =
                                     @ \o [i \in 1..Len(reply) |->
                                            [frame |-> reply[i], behind |-> Len(inbox[REPL])]]]
                         /\ UNCHANGED <<rpc, eof, broken>>
    /\ UNCHANGED <<now, db, peers, pc, chan, todo, msg, offset, nextTick,
                   sends, faults, disp, lastSet, lastAck, applied, rsnap, rread>>

\* the replica process is stopped from outside
ReplicaKill ==
    /\ ~RStopped
    /\ faults < MaxFaults
    /\ faults' = faults + 1
    /\ REnd("Killed")
    /\ UNCHANGED <<now, db, peers, pc, chan, todo, msg, offset, nextTick, inbox, out,
                   sends, sent, disp, lastSet, lastAck, applied, rdb, rsnap, rread, rlog>>

\* the replica client is not waiting: it is about to write, or what it
\* reads has arrived
ReplicaClientCanStep == rpc \in RWriting \/ (rpc \in RReading /\ RReadable)

\* ------------------------------------------------------------ specification
Master(c) ==
    \/ ClientEof(c)
    \/ ClientCommand(c)
    \/ ClientSet(c)
    \/ BroadcastBegin(c)
    \/ \E p \in Conns : BroadcastSend(c, p)
    \/ ClientPsync(c)
    \/ PsyncAdd(c)
    \/ ReplicaRecv(c)
    \/ ReplicaTick(c)
    \/ AwaitAck(c)
    \/ Remove(c)

ReplicaClient ==
    \/ RSendPing \/ RRecvPong \/ RSendPort \/ RRecvPortOk \/ RSendCapa \/ RRecvCapaOk
    \/ RSendPsync \/ RSyncLine1 \/ RSyncLine2 \/ RSyncBlob \/ RApply

Environment ==
    \/ AdvanceClock
    \/ \E c \in {CA, CB} : \E f \in Menu(c) : PeerSend(c, f)
    \/ \E c \in FaultyPeers : PeerShutdown(c)
    \/ \E c \in FaultyPeers : PeerClose(c)
    \/ ReplicaKill

Next == (\E c \in Conns : Master(c)) \/ ReplicaClient \/ Environment

Spec == Init /\ [][Next]_vars

\* ------------------------------------------------------------ replica client alone
\* The replica client connected to an arbitrary master (--replicaof names any
\* host): the master's end of connection REPL is a server that answers with
\* chunks of its choice, one at a time, or closes the connection.
FULLRESYNC == <<"+","F","U","L","L","R","E","S","Y","N","C"," ">> \o replid \o <<" ">>
                  \o server_offset \o CRLF

ServerLines ==
    { PONG, <<"+","p","o","n","g">> \o CRLF, OK, ERR, FULLRESYNC, CRLF,
      <<"$","8","8">> \o CRLF, <<"$","4">> \o CRLF, <<"$","x">> \o CRLF,
      blob, <<".", ".">>, array(F_SET_V), array(F_SET_PX), array(GETACK) }

\* the server writes one chunk while the replica client waits for input
ServerWrite(l) ==
    /\ rpc \in RReading
    /\ out[REPL] = <<>>
    /\ ~MasterClosed(REPL)
    /\ sends < MaxServerWrites
    /\ sends' = sends + 1
    /\ out' = [out EXCEPT ![REPL] = Chunks(<<l>>, <<>>, 0)]
    /\ UNCHANGED rvars
    /\ UNCHANGED <<now, db, peers, pc, chan, todo, msg, offset, nextTick, inbox,
                   eof, broken, faults, sent, disp, lastSet, lastAck, applied>>

\* the server closes the connection
ServerClose ==
    /\ ~RStopped
    /\ ~MasterClosed(REPL)
    /\ pc' = [pc EXCEPT ![REPL] = "Exited"]
    /\ UNCHANGED rvars
    /\ UNCHANGED <<now, db, peers, chan, todo, msg, offset, nextTick, inbox, out,
                   eof, broken, sends, faults, sent, disp, lastSet, lastAck, applied>>

Server == (\E l \in ServerLines : ServerWrite(l)) \/ ServerClose

InitReplica == Init /\ rpc = "Ping"

NextReplica == ReplicaClient \/ Server

ReplicaSpec == InitReplica /\ [][NextReplica]_vars

\* ------------------------------------------------------------ properties
\* s is a subsequence of t (the elements of s occur in t in the same order)
RECURSIVE IsSubseq(_, _)
IsSubseq(s, t) ==
    IF s = <<>> THEN TRUE
    ELSE IF t = <<>> THEN FALSE
    ELSE IF Head(s) = Head(t) THEN IsSubseq(Tail(s), Tail(t))
    ELSE IsSubseq(s, Tail(t))

\* the handler of c is about to dispatch a frame of the given command type
Dispatching(c, type) ==
    /\ pc[c] = "Client"
    /\ inbox[c] # <<>>
    /\ Command_parse(Head(inbox[c])).type = type

\* in this step the handler of c writes one reply chunk
Answers(c) == Len(out'[c]) = Len(out[c]) + 1

\* the bytes of the chunk written last to c in this step
Written(c) == out'[c][Len(out'[c])].bytes

\* C1: while payloads are queued for the registered replica client and its
\* connection is open, the master-side handler or the replica client can
\* take a step: the handler is never blocked for good on undelivered payloads
C1_QueuedPayloadDeliverable ==
    (REPL \in peers /\ chan[REPL] # <<>> /\ ~broken[REPL])
    => \/ CanRecv(REPL) \/ CanTick(REPL) \/ CanReadAck(REPL)
       \/ ReplicaClientCanStep

\* C2: a GET k answered on the connection whose SET k v was applied last and
\* got +OK, before the TTL has elapsed, returns exactly v
C2_GetReturnsValueAsSet ==
    [][\A c \in Conns :
        (/\ Dispatching(c, "Get")
         /\ Answers(c)
         /\ Head(inbox[c])[2] \in DOMAIN lastSet
         /\ LET s == lastSet[Head(inbox[c])[2]]
            IN  /\ s.conn = c
                /\ s.ok
                /\ (s.px = None \/ now < s.at + s.px[1]))
        => Written(c) = bulk_string(Some(lastSet[Head(inbox[c])[2]].value))]_vars

\* C3: a GET k executed at a time >= set time + TTL of the last SET k v PX t
\* returns the absent sentinel
C3_GetAbsentFromDeadline ==
    [][\A c \in Conns :
        (/\ Dispatching(c, "Get")
         /\ Answers(c)
         /\ Head(inbox[c])[2] \in DOMAIN lastSet
         /\ LET s == lastSet[Head(inbox[c])[2]]
            IN  s.px # None /\ now >= s.at + s.px[1])
        => Written(c) = bulk_string(None)]_vars

\* C4: every reply to ECHO x is the bulk string of x, the arguments as sent
C4_EchoReturnsArgument ==
    \A c \in {CA, CB} : \A i \in 1..Len(out[c]) :
        (out[c][i].seq > 0 /\ to_lowercase(out[c][i].frame[1]) = <<"e","c","h","o">>)
        => out[c][i].bytes = bulk_string(Some(join(Tail(out[c][i].frame))))

\* the master's replication offset, as a number
master_repl_offset == parse_u64(server_offset)[1]

\* the registered replicas whose last acknowledged offset has reached n
count_acked(n) == Cardinality({p \in peers : lastAck[p] # None /\ lastAck[p][1] >= n})

\* C5: the integer WAIT returns is the number of registered replicas whose
\* acknowledged offset has reached the master's replication offset
C5_WaitCountsAckedReplicas ==
    [][\A c \in Conns :
        (Dispatching(c, "Wait") /\ Answers(c))
        => Written(c) = <<":">> \o Digits(count_acked(master_repl_offset)) \o CRLF]_vars

\* C6: WAIT n timeout with timeout > 0 is not answered before n replicas
\* have acknowledged or timeout milliseconds have passed since its dispatch
C6_WaitNotAnsweredEarly ==
    [][\A c \in Conns :
        (/\ Dispatching(c, "Wait")
         /\ Answers(c)
         /\ Command_parse(Head(inbox[c])).timeout > 0)
        => \/ count_acked(master_repl_offset) >= Command_parse(Head(inbox[c])).n
           \/ now' - now >= Command_parse(Head(inbox[c])).timeout]_vars

\* the frame is REPLCONF GETACK
IsGetAck(frame) ==
    LET cmd == Command_parse(frame)
    IN  cmd.type = "Replconf" /\ cmd.sub = "GetAck"

\* the octets the apply loop consumed for the frames before the i-th
ProcessedBefore(i) == Len(Concat([j \in 1..(i - 1) |-> array(rlog[j].frame)]))

\* C7: the apply loop answers every REPLCONF GETACK with REPLCONF ACK d, d
\* being the octets of the frames processed before it
C7_GetAckAnswered ==
    \A i \in 1..Len(rlog) :
        IsGetAck(rlog[i].frame)
        => rlog[i].reply = << << <<"R","E","P","L","C","O","N","F">>, <<"A","C","K">>,
                                 Digits(ProcessedBefore(i)) >> >>

\* C8: the payloads queued in a registered replica's channel are in the
\* order in which their SETs were applied to the master's store
C8_QueuedInStoreOrder == \A p \in peers : IsSubseq(chan[p], applied)

\* the frames the handler of c has read off the socket so far, in order
Consumed(c) == [i \in 1..(Len(sent[c]) - Len(inbox[c])) |-> sent[c][i].frame]

IsFirstPart(ch) == ch.seq > 0 /\ ch.part = 1

\* the frames that were answered on c, in the order of their responses
Answered(c) ==
    LET first == SelectSeq(out[c], IsFirstPart)
    IN  [i \in 1..Len(first) |-> first[i].frame]

\* the frame is of a form the dispatch table answers: every command but
\* REPLCONF GETACK and REPLCONF ACK
ExpectsReply(frame) ==
    LET cmd == Command_parse(frame)
    IN  ~(cmd.type = "Replconf" /\ cmd.sub \in {"GetAck", "Ack"})

\* the handler of c is between two frames
Idle(c) == pc[c] \in {"Client", "Replica"}

\* C9 as claimed: on every connection each frame read is dispatched, in
\* arrival order, and answered by exactly one response in that order
C9_EveryFrameDispatchedAndAnswered ==
    \A c \in {CA, CB} :
        Idle(c) => (disp[c] = Consumed(c) /\ Answered(c) = Consumed(c))

\* C9 as amended: in Client state each frame read is dispatched once, in
\* arrival order; while the handler has not panicked every dispatched frame
\* but REPLCONF GETACK/ACK has exactly one response, in dispatch order; and
\* once PSYNC was dispatched nothing read later is dispatched
C9_ClientFramesDispatchedAndAnswered ==
    \A c \in {CA, CB} :
        /\ pc[c] = "Client" => disp[c] = Consumed(c)
        /\ pc[c] # "Panicked" => Answered(c) = SelectSeq(disp[c], ExpectsReply)
        /\ Len(disp[c]) <= Len(Consumed(c))
        /\ disp[c] = SubSeq(Consumed(c), 1, Len(disp[c]))
        /\ pc[c] \in {"PsyncAdd", "Replica", "AwaitAck"}
           => Command_parse(disp[c][Len(disp[c])]).type = "Psync"

\* two frames were pipelined on a connection (the second was sent while the
\* first was unread) and both have been dispatched and answered, in order
C9_Witness ==
    \E c \in {CA, CB} :
        /\ pc[c] = "Client"
        /\ Len(sent[c]) = 2 /\ sent[c][2].behind = 1
        /\ inbox[c] = <<>>
        /\ Len(Answered(c)) = 2

\* C10: a peer is in the registry exactly while it is promoted and its
\* handler loop runs; no entry remains once the handler has released its
\* receiver
C10_RegistryMatchesSessions ==
    \A c \in Conns :
        /\ c \in peers <=> pc[c] \in {"Replica", "AwaitAck"}
        /\ RxDropped(c) => c \notin peers

\* a SET whose PX argument is no non-negative decimal number, or with a wrong
\* number of arguments
MalformedSet(frame) ==
    /\ Len(frame) >= 1
    /\ to_lowercase(frame[1]) = <<"s","e","t">>
    /\ \/ Len(frame) \notin {3, 5}
       \/ /\ Len(frame) = 5
          /\ to_lowercase(frame[4]) = <<"p","x">>
          /\ parse_u64(frame[5]) = None

\* C11: when a malformed SET is dispatched the store is unchanged, nothing
\* is handed to the broadcast, and the reply (if it can be written) is -ERR
C11_MalformedSetIsErr ==
    [][\A c \in Conns :
        (/\ pc[c] = "Client"
         /\ inbox[c] # <<>>
         /\ MalformedSet(Head(inbox[c]))
         /\ inbox'[c] = Tail(inbox[c]))
        => /\ db' = db
           /\ applied' = applied
           /\ msg'[c] = <<>>
           /\ ~broken[c] => (Answers(c) /\ Written(c) = ERR)]_vars

\* the frames the replica client has written, in order
HandshakeSent == [i \in 1..Len(sent[REPL]) |-> sent[REPL][i].frame]

\* the i-th line the replica client read is the expected one, in any case
LineIs(i, expected) ==
    Len(rread) >= i /\ to_lowercase(rread[i]) = to_lowercase(expected)

\* the replies expected at handshake steps 1 to 3
Expected == <<PONG, OK, OK>>

WellFormedSet(frame) ==
    /\ Len(frame) \in {3, 5}
    /\ to_lowercase(frame[1]) = <<"s","e","t">>
    /\ Len(frame) = 5 => (to_lowercase(frame[4]) = <<"p","x">> /\ parse_u64(frame[5]) # None)

\* C13: the apply loop writes no reply for a SET, and after it has
\* processed its frames the replica's store maps each key to the value of
\* the last SET k v received for it
C13_ReplicaAppliesSets ==
    \A i \in 1..Len(rlog) :
        WellFormedSet(rlog[i].frame)
        => /\ rlog[i].reply = <<>>
           /\ (\A j \in (i + 1)..Len(rlog) :
                 ~(WellFormedSet(rlog[j].frame) /\ rlog[j].frame[2] = rlog[i].frame[2]))
              => /\ rlog[i].frame[2] \in DOMAIN rdb
                 /\ rdb[rlog[i].frame[2]].value = rlog[i].frame[3]

\* the octets of the replication stream produced so far: the payloads of
\* the SETs applied to the store, as they are written to a replica
stream_octets == Len(Concat([i \in 1..Len(applied) |-> array(applied[i])]))

\* the number of SET payloads queued for, written to or processed by replica p
Delivered(p) ==
    Len(chan[p])
    + Cardinality({i \in DOMAIN out[p] : out[p][i].seq = 0 /\ out[p][i].bytes # array(GETACK)})
    + (IF p = REPL THEN Cardinality({i \in DOMAIN rlog : rlog[i].frame # GETACK}) ELSE 0)

\* every SET applied so far has been broadcast to some registered replica
StreamProduced == applied # <<>> /\ \E p \in peers : Delivered(p) = Len(applied)

\* the INFO reply and the FULLRESYNC line of a master whose offset is n
InfoReporting(n) ==
    pairs(<< server_info[1], server_info[2], <<server_info[3][1], Digits(n)>> >>)
FullresyncReporting(n) ==
    <<"+","F","U","L","L","R","E","S","Y","N","C"," ">> \o replid \o <<" ">> \o Digits(n) \o CRLF

\* C14: once the SETs applied so far have been broadcast, INFO and a
\* FULLRESYNC reply report the octets of the replication stream produced
C14_OffsetCountsStream ==
    [][\A c \in Conns :
        /\ (Dispatching(c, "Info") /\ Answers(c) /\ StreamProduced)
           => Written(c) = InfoReporting(stream_octets)
        /\ (Dispatching(c, "Psync") /\ Len(out'[c]) = Len(out[c]) + 3 /\ StreamProduced)
           => out'[c][Len(out[c]) + 1].bytes = FullresyncReporting(stream_octets)]_vars

\* the handler of c reads the end of the stream or a read error
ReadFails(c) == inbox[c] = <<>> /\ (eof[c] \/ broken[c])

\* C15: a step the handler takes on a failed read (in Client state, or
\* while it waits for the ACK after GETACK) or on a failed write (in
\* ReplicaOutbound state) ends the handler loop, and the step after the
\* loop removes the registry entry
C15_TransportErrorEndsHandler ==
    [][\A c \in Conns :
        /\ (pc[c] = "Client" /\ ReadFails(c) /\ pc'[c] # pc[c]) => pc'[c] = "Dropped"
        /\ (pc[c] = "AwaitAck" /\ ReadFails(c) /\ pc'[c] # pc[c]) => pc'[c] = "Dropped"
        /\ (pc[c] = "Replica" /\ broken[c] /\ pc'[c] # pc[c]) => pc'[c] = "Dropped"
        /\ (pc[c] = "Dropped" /\ pc'[c] # pc[c]) => (pc'[c] = "Exited" /\ c \notin peers')]_vars

\* the acknowledged offset the master keeps for peer c: PeerType::Replica
\* holds offset and interval only, and the Ack arm of handle() prints a line
\* and stores nothing
acked_offset(c) == None

\* C16: once REPLCONF ACK n was read from a promoted peer after a GETACK,
\* the acknowledged offset the master keeps for that peer is n
C16_AckRecorded ==
    \A c \in Conns :
        (pc[c] \in {"Replica", "AwaitAck"} /\ lastAck[c] # None)
        => acked_offset(c) = lastAck[c]

\* C17: a broadcast that reaches a registered peer whose handler has
\* released its receiver does not panic the handler of the SET
C17_SendToGoneReplicaIsNoOp ==
    [][\A c \in Conns :
        (pc[c] = "Broadcasting" /\ \E p \in todo[c] : RxDropped(p))
        => pc'[c] # "Panicked"]_vars

\* the octets of the chunks pushed to the socket of c since its promotion
\* (broadcast payloads and GETACK frames) that are still in the socket
PushedOctets(c) ==
    LET pushed == SelectSeq(out[c], LAMBDA ch : ch.seq = 0)
    IN  Len(Concat([i \in 1..Len(pushed) |-> pushed[i].bytes]))

\* the octets of the pushed chunks the replica client has taken off the
\* socket of c: the frames its apply loop has processed
TakenOctets(c) ==
    IF c = REPL THEN Len(Concat([i \in 1..Len(rlog) |-> array(rlog[i].frame)])) ELSE 0

\* C18: the offset of a promoted peer is 0 at promotion, never decreases,
\* and after every step is the number of octets of the payloads and GETACK
\* frames written to that peer's socket since promotion
C18_OffsetCountsWritten ==
    [][\A c \in Conns :
        /\ offset'[c] >= offset[c]
        /\ (pc[c] = "PsyncAdd" /\ pc'[c] = "Replica") => offset'[c] = 0
        /\ pc'[c] \in {"Replica", "AwaitAck"}
           => offset'[c] = PushedOctets(c)' + TakenOctets(c)']_vars

\* a promoted peer has been written a GETACK frame and a broadcast payload
C18_Witness ==
    \E c \in Conns :
        /\ pc[c] \in {"Replica", "AwaitAck"}
        /\ offset[c] > Len(array(GETACK))
        /\ \E i \in DOMAIN out[c] : out[c][i].seq = 0 /\ out[c][i].bytes # array(GETACK)

\* C19: no handler of the master is ever in the panic state
C19_NoHandlerPanics == \A c \in Conns : pc[c] # "Panicked"

\* the line is "$<digits>\r\n"
IsLengthLine(l) ==
    /\ Len(l) >= 4
    /\ l[1] = "$"
    /\ SubSeq(l, Len(l) - 1, Len(l)) = CRLF
    /\ parse_u64(SubSeq(l, 2, Len(l) - 2)) # None

\* C20: after PSYNC was sent the replica client never panics; when the
\* length line it read is empty or malformed it has returned an error; and
\* it is in the apply loop only with the whole blob read
C20_SnapshotReadFailsCleanly ==
    /\ rpc # "Panic"
    /\ (Len(rread) = 5 /\ ~IsLengthLine(rread[5])) => rpc = "Error"
    /\ (rpc \in {"Apply", "Done"} \/ rlog # <<>>) => rsnap.got = rsnap.need

\* in this step the handler of c, in Client state, reads and dispatches a
\* frame whose command has one of the given types
Dispatches(c, types) ==
    /\ pc[c] = "Client"
    /\ inbox[c] # <<>>
    /\ inbox'[c] = Tail(inbox[c])
    /\ Command_parse(Head(inbox[c])).type \in types

\* the commands the claim lists as free of side effects
EffectFree == {"Ping", "Echo", "Get", "Info", "Replconf", "Wait", "Err"}

\* the payload of the SET at the head of the inbox of c: set, key, value
\* as the store holds them
PayloadOf(c) ==
    LET frame == Head(inbox[c])
    IN  << <<"s","e","t">>, to_lowercase(frame[2]), to_lowercase(frame[3]) >>

\* dispatching one of the effect-free commands leaves the store, the
\* registry and the channels of the registered replicas as they were
NoEffect(c) ==
    Dispatches(c, EffectFree)
    => /\ db' = db
       /\ peers' = peers
       /\ applied' = applied
       /\ msg'[c] = <<>>
       /\ \A p \in peers : chan'[p] = chan[p]

\* the broadcast of c starts with the replicas registered at that moment
BroadcastCoversRegistry(c) ==
    (pc[c] = "SetBroadcast" /\ pc'[c] # pc[c]) => (todo'[c] = peers /\ chan' = chan)

\* a step of the broadcast of c serves one registered replica: exactly one
\* payload is appended to its channel and no other channel changes; the
\* broadcast ends when every replica was served
BroadcastServesOne(c) ==
    /\ (pc[c] = "Broadcasting" /\ todo'[c] # todo[c])
       => \E p \in todo[c] :
            /\ p \in peers
            /\ todo'[c] = todo[c] \ {p}
            /\ chan' = [chan EXCEPT ![p] = Append(@, msg[c])]
            /\ pc'[c] = "Client" <=> todo'[c] = {}
    /\ (pc[c] = "Broadcasting" /\ todo'[c] = todo[c]) => pc'[c] = "Broadcasting"

Outbound == {"Replica", "AwaitAck"}

\* the last frame dispatched in the sequence d of dispatched frames was a
\* PSYNC
PsyncDispatched(d) ==
    d # <<>> /\ Command_parse(d[Len(d)]).type = "Psync"

\* the number of command response chunks in the socket contents o
Responses(o) == Len(SelectSeq(o, LAMBDA ch : ch.seq > 0))

\* C22: a handler is in ReplicaOutbound state only after a PSYNC was
\* dispatched on its connection; from there it goes on in that state or
\* ends; and a step it takes there dispatches nothing: the store, the
\* broadcasts and the command responses stay as they were
C22_OutboundIsFinal ==
    [][\A c \in Conns :
        /\ pc'[c] \in Outbound => PsyncDispatched(disp'[c])
        /\ pc[c] \in Outbound
           => /\ pc'[c] \in Outbound \cup {"Dropped"}
              /\ disp'[c] = disp[c]
              /\ Responses(out'[c]) <= Responses(out[c])
              /\ msg'[c] = msg[c] /\ todo'[c] = todo[c]
        /\ (pc[c] \in Outbound /\ inbox[c] # <<>> /\ inbox'[c] = Tail(inbox[c]))
           => /\ db' = db
              /\ applied' = applied
              /\ peers' = peers
              /\ out' = out
              /\ \A p \in Conns \ {c} : chan'[p] = chan[p]]_vars

\* a promoted connection has read a frame after its PSYNC, and the frame
\* was not dispatched
C22_Witness ==
    \E c \in Conns :
        /\ pc[c] \in Outbound
        /\ Len(Consumed(c)) > Len(disp[c])
        /\ PsyncDispatched(disp[c])

\* the replica client has applied every frame broadcast so far: it is in
\* its apply loop, it is registered, no handler is in the middle of a SET
\* or of a broadcast, and every payload produced has reached its store
Quiescent ==
    /\ rpc = "Apply"
    /\ REPL \in peers
    /\ pc[REPL] = "Replica"
    /\ \A c \in Conns : pc[c] \notin {"SetBroadcast", "Broadcasting", "Panicked"}
    /\ chan[REPL] = <<>>
    /\ \A i \in DOMAIN out[REPL] : out[REPL][i].bytes = array(GETACK)
    /\ applied # <<>>
    /\ Cardinality({i \in DOMAIN rlog : rlog[i].frame # GETACK}) = Len(applied)

\* one client only has written to the master
SingleWriter ==
    \E w \in Conns :
        \A c \in Conns \ {w} : \A i \in DOMAIN disp[c] :
            Command_parse(disp[c][i]).type # "Set"

\* C23: with a single writer, once the replica has applied every
\* broadcast frame, a GET of any key gives the same result on the replica
\* as on the master, also for a key set with PX after its time has passed
C23_ReadsAgreeAfterQuiescence ==
    (Quiescent /\ SingleWriter)
    => \A k \in DOMAIN db \cup DOMAIN rdb : db_get(rdb, k, now) = db_get(db, k, now)

\* the positions of a handler between a SET's store mutation and the end
\* of its broadcast
InSet == {"SetBroadcast", "Broadcasting"}

\* the handler of c ends a SET command in this step, normally or by failure
FinishesSet(c) ==
    /\ Dispatches(c, {"Set"}) \/ pc[c] \in InSet
    /\ pc'[c] \notin InSet
    /\ pc'[c] # pc[c]

\* the registered replicas with a live channel that the SET of c's handler
\* has not served by the end of this step
Unserved(c) ==
    IF pc[c] = "Broadcasting"
    THEN {p \in todo[c] : ~RxDropped(p) /\ chan'[p] = chan[p]}
    ELSE {p \in peers : ~RxDropped(p)}

\* C24: when a handler ends a SET command that has changed the store,
\* normally or by failure, the payload has been enqueued to every replica
\* registered at that time, also when the write of +OK failed
C24_SetAndBroadcastTogether ==
    [][\A c \in Conns : FinishesSet(c) => Unserved(c) = {}]_vars

====
